---- MODULE Spec2Model ----
(***************************************************************************)
(* One call session of src/server.js: the telephony leg (twilioWs), the    *)
(* engine leg (openaiWs), the per-call variables of the connection         *)
(* closure, and the asynchronous work a handler leaves suspended at an     *)
(* await (greeting / synthesis playbacks, tool HTTP calls).  A handler     *)
(* runs atomically from the event that starts it to its first await on     *)
(* I/O or a timer; each resumption is a step of its own.                   *)
(***************************************************************************)
EXTENDS Integers, Sequences, FiniteSets, Bags, TLC

\* ----------------------------------------------------------------- bounds
MaxLen == 1          \* longest accumulated transcript / text, in characters
MaxFrames == 1       \* most 160-byte frames in one synthesized audio
MaxPlaybacks == 2    \* most playbacks suspended at the same time
MaxToolCalls == 2    \* most tool HTTP calls awaited at the same time
GreetingFrames == 2  \* frames of greeting.ulaw when it loads
MaxTemplateLen == 2  \* longest spoken_template, in pieces of text
MaxValueLen == 1     \* longest parameter value, in pieces of text
MaxReloads == 1      \* most reloadPromptsFromDB calls awaiting the store

\* ------------------------------------------------------- values and inputs
NULL == "null"
Agents == {"router", "items", "pickup"}
Chars == {"a", " "}
CallIds == {"c1", "c2"}
ToolNames == {"determine_route", "search_items", "search_pickup_locations",
              "handoff_to_router", "handoff_to_items", "bogus_tool"}
\* event.arguments of response.function_call_arguments.done, as JSON text
ArgumentTexts == {"{bad", "{}", "{question:''}", "{question:'why'}",
                  "{question:5}"}
\* msg.start of the telephony start event
StartMsgs == {[callSid |-> NULL, streamSid |-> NULL],
              [callSid |-> "CA1", streamSid |-> "MZ1"]}
\* resp.data of the intent router
RouteData == {[intent |-> NULL, cleaned_question |-> NULL],
              [intent |-> "orders", cleaned_question |-> "cq"],
              [intent |-> "router", cleaned_question |-> "cq"],
              [intent |-> "items", cleaned_question |-> NULL],
              [intent |-> "items", cleaned_question |-> "cq"],
              [intent |-> "pickup", cleaned_question |-> "cq"]}
\* resp.data of the two search services ("" is an empty body)
SearchData == {"", "{results:[Matzah Box]}"}
\* the prompt sets the store can hold
PromptSets == {[a \in Agents |-> IF a = "items" THEN "" ELSE "db prompt of " \o a]}
\* which tool endpoints the environment configures
EndpointSets == {{}, {"determine_route", "search_items"}}

VARIABLES
  twilioWs,              \* readyState of the telephony socket
  openaiWs,              \* readyState of the engine socket
  GREETING_FRAMES_B64,   \* number of greeting frames loaded (0: none)
  PROMPTS,               \* agent -> stored instructions ("" when missing)
  ENDPOINTS,             \* tools whose endpoint is configured
  callSid, streamSid,
  openaiReady,
  isAssistantSpeaking, isGreetingPlaying,
  currentAgent,
  responseInProgress, pendingResponseCreate,
  lastResponseIntent,
  assistantTranscript, assistantText,
  functionCallMap,       \* call id -> tool name (NULL: not registered)
  playbacks,             \* bag of suspended playGreeting / speakWithElevenLabs
  toolCalls,             \* bag of handleToolCall suspended at axios.post
  toOpenAI,              \* messages sent on the engine leg by the last step
  toTwilio,              \* frames sent on the telephony leg by the last step
  toHttp,                \* HTTP requests issued by the last step
  lastEvent,             \* the event the last step handled
  greetingStarted,       \* history: playGreeting has started a playback
  handoffBefore,         \* history: persona the step before the last handed to
  engineSession,         \* history: last session.update sent on the engine leg
  heard,                 \* history: deltas received since the last response.created
  lastArguments,         \* history: call_id and arguments of the event just handled
  dispatchOrder,         \* history: the awaited tool calls, in the order dispatched
  request,               \* history: the last requestResponseCreate call: "none"
                         \* (none, or a completion was spoken since), "open",
                         \* "kept" (open, and a completion without text has
                         \* found its reason recorded and left it);
                         \* "untracked" where a specification does not record it
  PROMPT_REFRESH_SECRET, \* process.env value (NULL: not set)
  httpRequest,           \* the request the HTTP handler took last
  loaded,                \* history: what the store gave the reload finished last
  httpResponse,          \* status code written by the last step (0: none)
  reloads,               \* number of reloadPromptsFromDB calls awaiting the store
  answer                 \* a speakAnswer call: its inputs and result

session == <<callSid, streamSid, openaiReady, isAssistantSpeaking,
             isGreetingPlaying, currentAgent, responseInProgress,
             pendingResponseCreate, lastResponseIntent, assistantTranscript,
             assistantText, functionCallMap>>
config == <<GREETING_FRAMES_B64, PROMPTS, ENDPOINTS>>
sockets == <<twilioWs, openaiWs>>
history == <<handoffBefore, engineSession, heard, lastArguments,
             dispatchOrder, request>>
service == <<PROMPT_REFRESH_SECRET, httpRequest, httpResponse, reloads, answer,
             loaded>>
call == <<sockets, session, playbacks, toolCalls, toOpenAI, toTwilio, toHttp,
          lastEvent, greetingStarted, history>>
vars == <<sockets, config, session, playbacks, toolCalls, toOpenAI, toTwilio,
          toHttp, lastEvent, greetingStarted, history, service>>

\* ------------------------------------------------------------ small helpers
Put(bag, x) == bag (+) SetToBag({x})
Take(bag, x) == bag (-) SetToBag({x})

RECURSIVE TrimStart(_)
TrimStart(s) == IF s # <<>> /\ Head(s) = " " THEN TrimStart(Tail(s)) ELSE s

RECURSIVE TrimEnd(_)
TrimEnd(s) ==
  IF s # <<>> /\ s[Len(s)] = " " THEN TrimEnd(SubSeq(s, 1, Len(s) - 1)) ELSE s

\* String.prototype.trim
Trim(s) == TrimEnd(TrimStart(s))

\* mutant of CloseSocket: close() has no effect
CloseSocketNoop(readyState) == readyState

\* ws.close(): OPEN and CONNECTING sockets start closing, others are left alone
CloseSocket(readyState) ==
  IF readyState \in {"CONNECTING", "OPEN"} THEN "CLOSING" ELSE readyState

\* safeSendOpenAI for a sequence of messages: sent only while the leg is OPEN
safeSendOpenAI(msgs) == IF openaiWs = "OPEN" THEN msgs ELSE <<>>

\* twilioWs.send: the ws library drops data silently once the socket left OPEN
twilioSend(frames) == IF twilioWs = "OPEN" THEN frames ELSE <<>>

CountCreate(msgs) ==
  Cardinality({i \in 1..Len(msgs) : msgs[i].type = "response.create"})

\* the engine has been sent no session.update yet
NoSession ==
  [type |-> "none", instructions |-> "", turn_detection |-> NULL,
   tools |-> <<>>]

\* the session.update messages among msgs, in the order sent
SessionUpdates(msgs) == SelectSeq(msgs, LAMBDA m : m.type = "session.update")

\* the steps in which handleHandoff runs
HandoffEvents == {"route.response", "response.function_call_arguments.done"}

\* no delta has been received since the last response.created
NothingHeard == [transcript |-> <<>>, text |-> <<>>]

\* the event just handled was no response.function_call_arguments.done
NoArguments == [call_id |-> NULL, arguments |-> NULL]

\* the events whose actions write heard, and dispatchOrder, themselves
AccumulatorEvents == {"response.created", "response.audio_transcript.delta",
                      "response.output_text.delta"}
ToolEvents == {"response.function_call_arguments.done", "route.response",
               "search.response", "tool.failure"}
RequestEvents == {"speech_stopped",
                  "response.function_call_arguments.done", "route.response",
                  "response.done"}

\* the value the history variable request takes when v is recorded
Recorded(v) == IF request = "untracked" THEN request ELSE v

\* what a step of the call adds to the history: the persona whose session the
\* previous step's handoff sent, and the last session.update the engine got;
\* the other history variables are written by the actions of their events and
\* kept by every other action
History ==
  /\ IF lastEvent' \in AccumulatorEvents THEN TRUE ELSE heard' = heard
  /\ IF lastEvent' = "response.function_call_arguments.done" THEN TRUE
     ELSE lastArguments' = NoArguments
  /\ IF lastEvent' \in ToolEvents THEN TRUE
     ELSE dispatchOrder' = dispatchOrder
  /\ IF lastEvent' \in RequestEvents THEN TRUE ELSE request' = request
  /\ handoffBefore' = IF lastEvent \in HandoffEvents
                          /\ SessionUpdates(toOpenAI) # <<>>
                       THEN currentAgent ELSE NULL
  /\ engineSession' = IF SessionUpdates(toOpenAI') # <<>>
                       THEN SessionUpdates(toOpenAI')[Len(SessionUpdates(toOpenAI'))]
                       ELSE engineSession

\* the telephony media event carrying frame i of a playback
Frame(sid, kind, i) ==
  [event |-> "media", streamSid |-> sid, kind |-> kind, index |-> i]

Truthy(v) == v # NULL /\ v # ""

\* requestResponseCreate(reason), called with the given values of
\* responseInProgress and pendingResponseCreate; `send` are the messages it
\* hands to safeSendOpenAI
requestResponseCreate(reason, inProgress, pending) ==
  [lastResponseIntent |-> reason,
   pendingResponseCreate |-> IF openaiReady /\ inProgress THEN TRUE ELSE pending,
   send |-> IF openaiReady /\ ~inProgress
            THEN <<[type |-> "response.create"]>> ELSE <<>>]

NoRequest == [method |-> NULL, url |-> NULL, authorization |-> NULL]
\* a persona whose slug is in no returned row
NoRow == "no row"
\* no reload has finished
NoOutcome == [error |-> FALSE, data |-> [a \in Agents |-> NoRow]]

\* the HTTP server after listen(): no request taken, no reload running
ServiceInit(secret) ==
  /\ PROMPT_REFRESH_SECRET = secret
  /\ httpRequest = NoRequest
  /\ loaded = NoOutcome
  /\ httpResponse = 0
  /\ reloads = 0

\* the per-call state when the connection handler returns, for a greeting of
\* `frames` frames and the configured endpoints `endpoints`
ConnectionState(frames, endpoints) ==
  /\ twilioWs = "OPEN"
  /\ openaiWs = "CONNECTING"
  /\ GREETING_FRAMES_B64 = frames
  /\ PROMPTS \in PromptSets
  /\ ENDPOINTS = endpoints
  /\ callSid = NULL
  /\ streamSid = NULL
  /\ openaiReady = FALSE
  /\ isAssistantSpeaking = FALSE
  /\ isGreetingPlaying = FALSE
  /\ currentAgent = "router"
  /\ responseInProgress = FALSE
  /\ pendingResponseCreate = FALSE
  /\ lastResponseIntent = NULL
  /\ assistantTranscript = <<>>
  /\ assistantText = <<>>
  /\ functionCallMap = [c \in CallIds |-> NULL]
  /\ playbacks = EmptyBag
  /\ toolCalls = EmptyBag
  /\ toOpenAI = <<>>
  /\ toTwilio = <<>>
  /\ toHttp = <<>>
  /\ lastEvent = "connection"
  /\ greetingStarted = FALSE
  /\ handoffBefore = NULL
  /\ engineSession = NoSession
  /\ heard = NothingHeard
  /\ lastArguments = NoArguments
  /\ dispatchOrder = <<>>

\* no speakAnswer call has been made
NoAnswer ==
  [pc |-> "none", found |-> FALSE, spoken_template |-> <<>>, params |-> <<>>,
   text |-> <<>>]

\* a call on a server that takes no HTTP request and no speakAnswer call
InitWith(frames, endpoints) ==
  /\ ConnectionState(frames, endpoints)
  /\ request = "untracked"
  /\ ServiceInit(NULL)
  /\ answer = NoAnswer

\* --------------------------------------------- session configuration per agent
Instructions(agent) ==
  IF PROMPTS[agent] # "" THEN PROMPTS[agent]
  ELSE "You are the Chasdei Lev " \o agent \o " agent."

\* mutant of setRouterSession: the tools are added to those already configured
setRouterSessionMerged ==
  [type |-> "session.update", instructions |-> Instructions("router"),
   turn_detection |-> "server_vad",
   tools |-> engineSession.tools \o <<"determine_route">>]

setRouterSession ==
  [type |-> "session.update", instructions |-> Instructions("router"),
   turn_detection |-> "server_vad", tools |-> <<"determine_route">>]

setItemsSession ==
  [type |-> "session.update", instructions |-> Instructions("items"),
   turn_detection |-> NULL, tools |-> <<"search_items", "handoff_to_router">>]

setPickupSession ==
  [type |-> "session.update", instructions |-> Instructions("pickup"),
   turn_detection |-> NULL,
   tools |-> <<"search_pickup_locations", "handoff_to_router">>]

\* mutant of SessionUpdate: every handoff configures the router persona
SessionUpdateRouterOnly(agent) == setRouterSession

SessionUpdate(agent) ==
  CASE agent = "router" -> setRouterSession
    [] agent = "items" -> setItemsSession
    [] agent = "pickup" -> setPickupSession

UserTurn(text) ==
  [type |-> "conversation.item.create", item |-> "message", role |-> "user",
   text |-> text]

FunctionCallOutput(callId, output) ==
  [type |-> "conversation.item.create", item |-> "function_call_output",
   call_id |-> callId, output |-> output]

\* mutant of handleHandoff: the forwarded question is not injected
handleHandoffNoTurn(intent, question, inProgress, pending) ==
  IF intent \notin Agents
  THEN [currentAgent |-> currentAgent,
        lastResponseIntent |-> lastResponseIntent,
        pendingResponseCreate |-> pending, send |-> <<>>]
  ELSE LET r == requestResponseCreate("handoff", inProgress, pending)
       IN [currentAgent |-> intent,
           lastResponseIntent |-> r.lastResponseIntent,
           pendingResponseCreate |-> r.pendingResponseCreate,
           send |-> <<SessionUpdate(intent)>> \o r.send]

\* mutant of handleHandoff: the question is injected before the session is
\* configured
handleHandoffTurnFirst(intent, question, inProgress, pending) ==
  IF intent \notin Agents
  THEN [currentAgent |-> currentAgent,
        lastResponseIntent |-> lastResponseIntent,
        pendingResponseCreate |-> pending, send |-> <<>>]
  ELSE IF Truthy(question)
  THEN LET r == requestResponseCreate("handoff", inProgress, pending)
       IN [currentAgent |-> intent,
           lastResponseIntent |-> r.lastResponseIntent,
           pendingResponseCreate |-> r.pendingResponseCreate,
           send |-> <<UserTurn(question), SessionUpdate(intent)>> \o r.send]
  ELSE [currentAgent |-> intent,
        lastResponseIntent |-> lastResponseIntent,
        pendingResponseCreate |-> pending,
        send |-> <<SessionUpdate(intent)>>]

\* mutant of handleHandoff: a handoff to the current persona does nothing
handleHandoffSkipSame(intent, question, inProgress, pending) ==
  IF intent \notin Agents \/ intent = currentAgent
  THEN [currentAgent |-> currentAgent,
        lastResponseIntent |-> lastResponseIntent,
        pendingResponseCreate |-> pending, send |-> <<>>]
  ELSE IF Truthy(question)
  THEN LET r == requestResponseCreate("handoff", inProgress, pending)
       IN [currentAgent |-> intent,
           lastResponseIntent |-> r.lastResponseIntent,
           pendingResponseCreate |-> r.pendingResponseCreate,
           send |-> <<SessionUpdate(intent), UserTurn(question)>> \o r.send]
  ELSE [currentAgent |-> intent,
        lastResponseIntent |-> lastResponseIntent,
        pendingResponseCreate |-> pending,
        send |-> <<SessionUpdate(intent)>>]

\* handleHandoff(h) calls requestResponseCreate
HandoffRequests(intent, question) == intent \in Agents /\ Truthy(question)

\* handleHandoff(h) for h.intent and h.question, called with the given values
\* of responseInProgress and pendingResponseCreate
handleHandoff(intent, question, inProgress, pending) ==
  IF intent \notin Agents
  THEN [currentAgent |-> currentAgent,
        lastResponseIntent |-> lastResponseIntent,
        pendingResponseCreate |-> pending, send |-> <<>>]
  ELSE IF Truthy(question)
  THEN LET r == requestResponseCreate("handoff", inProgress, pending)
       IN [currentAgent |-> intent,
           lastResponseIntent |-> r.lastResponseIntent,
           pendingResponseCreate |-> r.pendingResponseCreate,
           send |-> <<SessionUpdate(intent), UserTurn(question)>> \o r.send]
  ELSE [currentAgent |-> intent,
        lastResponseIntent |-> lastResponseIntent,
        pendingResponseCreate |-> pending,
        send |-> <<SessionUpdate(intent)>>]

\* mutant of GreetingStarts: the greeting is played although none is loaded
GreetingStartsUnloaded(sid) == sid # NULL

\* ------------------------------------------------------- telephony leg events
\* playGreeting is entered: both flags are raised and the first frame is sent
\* before the first sleep
GreetingStarts(sid) == GREETING_FRAMES_B64 > 0 /\ sid # NULL

TwilioStart(m) ==
  /\ twilioWs = "OPEN"
  /\ GreetingStarts(m.streamSid) => BagCardinality(playbacks) < MaxPlaybacks
  /\ callSid' = m.callSid
  /\ streamSid' = m.streamSid
  /\ IF GreetingStarts(m.streamSid)
     THEN /\ isGreetingPlaying' = TRUE
          /\ isAssistantSpeaking' = TRUE
          /\ toTwilio' = twilioSend(<<Frame(m.streamSid, "greeting", 0)>>)
          /\ playbacks' = Put(playbacks,
               [kind |-> "greeting", pc |-> "frames", sent |-> 1,
                total |-> GREETING_FRAMES_B64])
     ELSE /\ toTwilio' = <<>>
          /\ UNCHANGED <<isGreetingPlaying, isAssistantSpeaking, playbacks>>
  /\ greetingStarted' = (greetingStarted \/ GreetingStarts(m.streamSid))
  /\ toOpenAI' = <<>>
  /\ toHttp' = <<>>
  /\ lastEvent' = "twilio.start"
  /\ History
  /\ UNCHANGED service
  /\ UNCHANGED <<sockets, config, openaiReady, currentAgent, responseInProgress,
                 pendingResponseCreate, lastResponseIntent, assistantTranscript,
                 assistantText, functionCallMap, toolCalls>>

\* mutant of MediaForwarded: the guard tests the greeting flag only
MediaForwardedDuringSpeech == ~isGreetingPlaying /\ openaiReady

\* the media branch forwards the frame unless the guard of the handler drops it
MediaForwarded == ~(isAssistantSpeaking \/ isGreetingPlaying) /\ openaiReady

TwilioMedia ==
  /\ twilioWs = "OPEN"
  /\ toOpenAI' = IF MediaForwarded
                 THEN safeSendOpenAI(<<[type |-> "input_audio_buffer.append"]>>)
                 ELSE <<>>
  /\ toTwilio' = <<>>
  /\ toHttp' = <<>>
  /\ lastEvent' = "twilio.media"
  /\ History
  /\ UNCHANGED service
  /\ UNCHANGED <<sockets, config, greetingStarted, session, playbacks,
                 toolCalls>>

TwilioStop ==
  /\ twilioWs = "OPEN"
  /\ openaiWs' = CloseSocket(openaiWs)
  /\ toOpenAI' = <<>>
  /\ toTwilio' = <<>>
  /\ toHttp' = <<>>
  /\ lastEvent' = "twilio.stop"
  /\ History
  /\ UNCHANGED service
  /\ UNCHANGED <<twilioWs, config, greetingStarted, session, playbacks,
                 toolCalls>>

\* 'close' of the telephony socket: the peer closed it, or a close() completed
TwilioClose ==
  /\ twilioWs \in {"OPEN", "CLOSING"}
  /\ twilioWs' = "CLOSED"
  /\ openaiWs' = CloseSocket(openaiWs)
  /\ toOpenAI' = <<>>
  /\ toTwilio' = <<>>
  /\ toHttp' = <<>>
  /\ lastEvent' = "twilio.close"
  /\ History
  /\ UNCHANGED service
  /\ UNCHANGED <<config, greetingStarted, session, playbacks, toolCalls>>

\* 'error' of the telephony socket; its 'close' follows
TwilioError ==
  /\ twilioWs = "OPEN"
  /\ twilioWs' = "CLOSING"
  /\ openaiWs' = CloseSocket(openaiWs)
  /\ toOpenAI' = <<>>
  /\ toTwilio' = <<>>
  /\ toHttp' = <<>>
  /\ lastEvent' = "twilio.error"
  /\ History
  /\ UNCHANGED service
  /\ UNCHANGED <<config, greetingStarted, session, playbacks, toolCalls>>

\* mutant of OnParseFailure: a frame that does not parse ends the call
OnParseFailureClose(readyState) == CloseSocket(readyState)

\* what the catch of JSON.parse(raw.toString()) does to a socket in either
\* message handler: it returns
OnParseFailure(readyState) == readyState

\* a frame that is no JSON text arrives on the telephony leg
TwilioMalformed ==
  /\ twilioWs = "OPEN"
  /\ twilioWs' = OnParseFailure(twilioWs)
  /\ openaiWs' = OnParseFailure(openaiWs)
  /\ toOpenAI' = <<>>
  /\ toTwilio' = <<>>
  /\ toHttp' = <<>>
  /\ lastEvent' = "twilio.malformed"
  /\ History
  /\ UNCHANGED service
  /\ UNCHANGED <<config, greetingStarted, session, playbacks, toolCalls>>

\* ------------------------------------------------------------------ playbacks
\* mutant of PlaybackEnds: the finally block leaves isAssistantSpeaking set
PlaybackEndsSpeaking(p) ==
  /\ playbacks' = Take(playbacks, p)
  /\ UNCHANGED isAssistantSpeaking
  /\ isGreetingPlaying' = IF p.kind = "greeting" THEN FALSE ELSE isGreetingPlaying
  /\ lastResponseIntent' = IF p.kind = "tts" THEN NULL ELSE lastResponseIntent

\* the finally block of a playback p, and for a synthesis the statement after
\* the await of speakWithElevenLabs in the response.done case
PlaybackEnds(p) ==
  /\ playbacks' = Take(playbacks, p)
  /\ isAssistantSpeaking' = FALSE
  /\ isGreetingPlaying' = IF p.kind = "greeting" THEN FALSE ELSE isGreetingPlaying
  /\ lastResponseIntent' = IF p.kind = "tts" THEN NULL ELSE lastResponseIntent

\* a sleep(20) of a playback loop returns: the next frame, or the end
PlaybackStep(p) ==
  /\ p.pc = "frames"
  /\ IF p.sent < p.total
     THEN /\ toTwilio' = twilioSend(<<Frame(streamSid, p.kind, p.sent)>>)
          /\ playbacks' = Put(Take(playbacks, p), [p EXCEPT !.sent = p.sent + 1])
          /\ UNCHANGED <<isAssistantSpeaking, isGreetingPlaying,
                         lastResponseIntent>>
     ELSE /\ toTwilio' = <<>>
          /\ PlaybackEnds(p)
  /\ toOpenAI' = <<>>
  /\ toHttp' = <<>>
  /\ lastEvent' = "playback.timer"
  /\ History
  /\ UNCHANGED service
  /\ UNCHANGED <<sockets, config, greetingStarted, callSid, streamSid,
                 openaiReady, currentAgent,
                 responseInProgress, pendingResponseCreate, assistantTranscript,
                 assistantText, functionCallMap, toolCalls>>

\* mutant of SendThrows: no finally block, the error leaves the function
SendThrowsUncaught(p) ==
  /\ playbacks' = Take(playbacks, p)
  /\ UNCHANGED <<isAssistantSpeaking, isGreetingPlaying, lastResponseIntent>>

\* twilioWs.send raises an error in the frame loop of playback p: the catch
\* block logs it and the finally block runs
SendThrows(p) == PlaybackEnds(p)

\* a sleep(20) of a playback loop returns and the send of the next frame
\* raises an error
PlaybackThrows(p) ==
  /\ p.pc = "frames"
  /\ p.sent < p.total
  /\ SendThrows(p)
  /\ toTwilio' = <<>>
  /\ toOpenAI' = <<>>
  /\ toHttp' = <<>>
  /\ lastEvent' = "playback.throw"
  /\ History
  /\ UNCHANGED service
  /\ UNCHANGED <<sockets, config, greetingStarted, callSid, streamSid,
                 openaiReady, currentAgent,
                 responseInProgress, pendingResponseCreate, assistantTranscript,
                 assistantText, functionCallMap, toolCalls>>

\* the synthesis request returns audio of n frames
TtsResponse(p, n) ==
  /\ p.kind = "tts" /\ p.pc = "http"
  /\ IF n > 0
     THEN /\ toTwilio' = twilioSend(<<Frame(streamSid, "tts", 0)>>)
          /\ playbacks' = Put(Take(playbacks, p),
               [kind |-> "tts", pc |-> "frames", sent |-> 1, total |-> n])
          /\ UNCHANGED <<isAssistantSpeaking, isGreetingPlaying,
                         lastResponseIntent>>
     ELSE /\ toTwilio' = <<>>
          /\ PlaybackEnds(p)
  /\ toOpenAI' = <<>>
  /\ toHttp' = <<>>
  /\ lastEvent' = "tts.response"
  /\ History
  /\ UNCHANGED service
  /\ UNCHANGED <<sockets, config, greetingStarted, callSid, streamSid,
                 openaiReady, currentAgent,
                 responseInProgress, pendingResponseCreate, assistantTranscript,
                 assistantText, functionCallMap, toolCalls>>

\* the synthesis request fails or times out
TtsFailure(p) ==
  /\ p.kind = "tts" /\ p.pc = "http"
  /\ PlaybackEnds(p)
  /\ toOpenAI' = <<>>
  /\ toTwilio' = <<>>
  /\ toHttp' = <<>>
  /\ lastEvent' = "tts.failure"
  /\ History
  /\ UNCHANGED service
  /\ UNCHANGED <<sockets, config, greetingStarted, callSid, streamSid,
                 openaiReady, currentAgent,
                 responseInProgress, pendingResponseCreate, assistantTranscript,
                 assistantText, functionCallMap, toolCalls>>

\* ------------------------------------------------------------ engine leg events
OpenAIOpen ==
  /\ openaiWs = "CONNECTING"
  /\ openaiWs' = "OPEN"
  /\ openaiReady' = TRUE
  /\ currentAgent' = "router"
  /\ toOpenAI' = <<setRouterSession>>
  /\ toTwilio' = <<>>
  /\ toHttp' = <<>>
  /\ lastEvent' = "openai.open"
  /\ History
  /\ UNCHANGED service
  /\ UNCHANGED <<twilioWs, config, greetingStarted, callSid, streamSid,
                 isAssistantSpeaking,
                 isGreetingPlaying, responseInProgress, pendingResponseCreate,
                 lastResponseIntent, assistantTranscript, assistantText,
                 functionCallMap, playbacks, toolCalls>>

\* 'close' of the engine socket: the peer closed it, the connection could not
\* be made, or a close() completed
OpenAIClose ==
  /\ openaiWs \in {"CONNECTING", "OPEN", "CLOSING"}
  /\ openaiWs' = "CLOSED"
  /\ twilioWs' = CloseSocket(twilioWs)
  /\ toOpenAI' = <<>>
  /\ toTwilio' = <<>>
  /\ toHttp' = <<>>
  /\ lastEvent' = "openai.close"
  /\ History
  /\ UNCHANGED service
  /\ UNCHANGED <<config, greetingStarted, session, playbacks, toolCalls>>

\* 'error' of the engine socket; its 'close' follows
OpenAIError ==
  /\ openaiWs \in {"CONNECTING", "OPEN"}
  /\ openaiWs' = "CLOSING"
  /\ twilioWs' = CloseSocket(twilioWs)
  /\ toOpenAI' = <<>>
  /\ toTwilio' = <<>>
  /\ toHttp' = <<>>
  /\ lastEvent' = "openai.error"
  /\ History
  /\ UNCHANGED service
  /\ UNCHANGED <<config, greetingStarted, session, playbacks, toolCalls>>

\* a frame that is no JSON text arrives on the engine leg
OpenAIMalformed ==
  /\ openaiWs = "OPEN"
  /\ openaiWs' = OnParseFailure(openaiWs)
  /\ twilioWs' = OnParseFailure(twilioWs)
  /\ toOpenAI' = <<>>
  /\ toTwilio' = <<>>
  /\ toHttp' = <<>>
  /\ lastEvent' = "openai.malformed"
  /\ History
  /\ UNCHANGED service
  /\ UNCHANGED <<config, greetingStarted, session, playbacks, toolCalls>>

\* mutant of AudioDeltaFrames: the engine's audio is forwarded to the caller
AudioDeltaFramesForwarded(sid) ==
  IF sid # NULL THEN <<Frame(sid, "engine", 0)>> ELSE <<>>

\* the frames the response.audio.delta case sends to the caller: none
AudioDeltaFrames(sid) == <<>>

\* response.audio.delta: the engine streams its own audio
AudioDelta ==
  /\ openaiWs = "OPEN"
  /\ responseInProgress
  /\ toTwilio' = twilioSend(AudioDeltaFrames(streamSid))
  /\ toOpenAI' = <<>>
  /\ toHttp' = <<>>
  /\ lastEvent' = "response.audio.delta"
  /\ History
  /\ UNCHANGED service
  /\ UNCHANGED <<sockets, config, greetingStarted, session, playbacks,
                 toolCalls>>

\* mutant of OnErrorEvent: the error case gives up the socket
OnErrorEventClose(readyState) == CloseSocket(readyState)

\* what the error case of the message switch does to a socket: it only logs
OnErrorEvent(readyState) == readyState

\* the engine reports an error in an event of type error
EngineErrorEvent ==
  /\ openaiWs = "OPEN"
  /\ openaiWs' = OnErrorEvent(openaiWs)
  /\ twilioWs' = OnErrorEvent(twilioWs)
  /\ toOpenAI' = <<>>
  /\ toTwilio' = <<>>
  /\ toHttp' = <<>>
  /\ lastEvent' = "error"
  /\ History
  /\ UNCHANGED service
  /\ UNCHANGED <<config, greetingStarted, session, playbacks, toolCalls>>

\* the speech_stopped case requests a response unless the guard breaks
VadRequests == ~(isAssistantSpeaking \/ isGreetingPlaying)

SpeechStopped ==
  /\ openaiWs = "OPEN"
  /\ LET r == requestResponseCreate("vad", responseInProgress,
                                    pendingResponseCreate)
     IN IF VadRequests
        THEN /\ lastResponseIntent' = r.lastResponseIntent
             /\ pendingResponseCreate' = r.pendingResponseCreate
             /\ toOpenAI' = safeSendOpenAI(r.send)
             /\ request' = Recorded("open")
        ELSE /\ toOpenAI' = <<>>
             /\ UNCHANGED <<lastResponseIntent, pendingResponseCreate,
                            request>>
  /\ toTwilio' = <<>>
  /\ toHttp' = <<>>
  /\ lastEvent' = "speech_stopped"
  /\ History
  /\ UNCHANGED service
  /\ UNCHANGED <<sockets, config, greetingStarted, callSid, streamSid,
                 openaiReady,
                 isAssistantSpeaking, isGreetingPlaying, currentAgent,
                 responseInProgress, assistantTranscript, assistantText,
                 functionCallMap, playbacks, toolCalls>>

\* mutant of Cleared: response.created keeps what was accumulated
ClearedNot(acc) == acc

\* assistantTranscript = '' and assistantText = '' in the response.created case
Cleared(acc) == <<>>

\* the engine starts a response only when it has none active
ResponseCreated ==
  /\ openaiWs = "OPEN"
  /\ ~responseInProgress
  /\ responseInProgress' = TRUE
  /\ assistantTranscript' = Cleared(assistantTranscript)
  /\ assistantText' = Cleared(assistantText)
  /\ heard' = NothingHeard
  /\ toOpenAI' = <<>>
  /\ toTwilio' = <<>>
  /\ toHttp' = <<>>
  /\ lastEvent' = "response.created"
  /\ History
  /\ UNCHANGED service
  /\ UNCHANGED <<sockets, config, greetingStarted, callSid, streamSid,
                 openaiReady,
                 isAssistantSpeaking, isGreetingPlaying, currentAgent,
                 pendingResponseCreate, lastResponseIntent, functionCallMap,
                 playbacks, toolCalls>>

\* acc += event.delta when the delta is a string
Accumulate(acc, isString, delta) == IF isString THEN acc \o delta ELSE acc

TranscriptDelta(isString, delta) ==
  /\ openaiWs = "OPEN"
  /\ responseInProgress
  /\ Len(assistantTranscript) + Len(delta) <= MaxLen
  /\ assistantTranscript' = Accumulate(assistantTranscript, isString, delta)
  /\ heard' = [heard EXCEPT !.transcript = IF isString THEN @ \o delta ELSE @]
  /\ toOpenAI' = <<>>
  /\ toTwilio' = <<>>
  /\ toHttp' = <<>>
  /\ lastEvent' = "response.audio_transcript.delta"
  /\ History
  /\ UNCHANGED service
  /\ UNCHANGED <<sockets, config, greetingStarted, callSid, streamSid,
                 openaiReady,
                 isAssistantSpeaking, isGreetingPlaying, currentAgent,
                 responseInProgress, pendingResponseCreate, lastResponseIntent,
                 assistantText, functionCallMap, playbacks, toolCalls>>

TextDelta(isString, delta) ==
  /\ openaiWs = "OPEN"
  /\ responseInProgress
  /\ Len(assistantText) + Len(delta) <= MaxLen
  /\ assistantText' = Accumulate(assistantText, isString, delta)
  /\ heard' = [heard EXCEPT !.text = IF isString THEN @ \o delta ELSE @]
  /\ toOpenAI' = <<>>
  /\ toTwilio' = <<>>
  /\ toHttp' = <<>>
  /\ lastEvent' = "response.output_text.delta"
  /\ History
  /\ UNCHANGED service
  /\ UNCHANGED <<sockets, config, greetingStarted, callSid, streamSid,
                 openaiReady,
                 isAssistantSpeaking, isGreetingPlaying, currentAgent,
                 responseInProgress, pendingResponseCreate, lastResponseIntent,
                 assistantTranscript, functionCallMap, playbacks, toolCalls>>

\* response.output_item.added: a function_call item with call_id and name
Register(map, itemType, callId, name) ==
  IF itemType = "function_call" /\ callId # NULL /\ name # NULL
  THEN [map EXCEPT ![callId] = name] ELSE map

OutputItemAdded(itemType, callId, name) ==
  /\ openaiWs = "OPEN"
  /\ responseInProgress
  /\ functionCallMap' = Register(functionCallMap, itemType, callId, name)
  /\ toOpenAI' = <<>>
  /\ toTwilio' = <<>>
  /\ toHttp' = <<>>
  /\ lastEvent' = "response.output_item.added"
  /\ History
  /\ UNCHANGED service
  /\ UNCHANGED <<sockets, config, greetingStarted, callSid, streamSid,
                 openaiReady,
                 isAssistantSpeaking, isGreetingPlaying, currentAgent,
                 responseInProgress, pendingResponseCreate, lastResponseIntent,
                 assistantTranscript, assistantText, playbacks, toolCalls>>

\* ------------------------------------------------------------------ tool calls
\* JSON.parse(event.arguments || '{}'), with {} when the text does not parse
\* mutant of ParseArguments: text that does not parse is kept as the question
ParseArgumentsKeepsText(text) ==
  CASE text = "{question:''}" -> [question |-> "", typeof |-> "string"]
    [] text = "{question:'why'}" -> [question |-> "why", typeof |-> "string"]
    [] text = "{question:5}" -> [question |-> "5", typeof |-> "number"]
    [] text = "{bad" -> [question |-> text, typeof |-> "string"]
    [] OTHER -> [question |-> NULL, typeof |-> "undefined"]

\* args.question is given with its typeof
ParseArguments(text) ==
  CASE text = "{question:''}" -> [question |-> "", typeof |-> "string"]
    [] text = "{question:'why'}" -> [question |-> "why", typeof |-> "string"]
    [] text = "{question:5}" -> [question |-> "5", typeof |-> "number"]
    [] OTHER -> [question |-> NULL, typeof |-> "undefined"]

\* mutant of CleanedQuestion: args.question is forwarded whatever its type
CleanedQuestionAnyType(args) == args.question

\* typeof args.question === 'string' ? args.question : null
CleanedQuestion(args) == IF args.typeof = "string" THEN args.question ELSE NULL

\* mutant of LookupTool: an id that is not registered gets the name of a
\* registered call
LookupToolAny(map, callId) ==
  IF map[callId] # NULL \/ \A c \in DOMAIN map : map[c] = NULL
  THEN map[callId]
  ELSE map[CHOOSE c \in DOMAIN map : map[c] # NULL]

\* functionCallMap.get(callId): undefined (NULL) ends the case
LookupTool(map, callId) == map[callId]

\* a tool call leaves the awaited calls: the oldest entry equal to t goes
RECURSIVE Settle(_, _)
Settle(order, t) ==
  IF order = <<>> THEN <<>>
  ELSE IF Head(order) = t THEN Tail(order)
  ELSE <<Head(order)>> \o Settle(Tail(order), t)

\* the first two lines of handleToolCall
ToolAlias(toolName) ==
  IF toolName \in {"handoff_to_items", "handoff_to_pickup"}
  THEN "determine_route" ELSE toolName

HttpTools == {"determine_route", "search_items", "search_pickup_locations"}

ToolRequest(tool, args) ==
  [url |-> tool, args |-> args, call_sid |-> callSid,
   current_agent |-> IF tool = "determine_route" THEN currentAgent ELSE NULL]

\* resp.data || {} as the JSON text that is submitted
RouteOutput(data) ==
  <<"intent", data.intent, "cleaned_question", data.cleaned_question>>
SearchOutput(data) == IF data = "" THEN "{}" ELSE data

\* response.function_call_arguments.done, up to the first await of handleToolCall
FunctionCallArgumentsDone(callId, text) ==
  /\ openaiWs = "OPEN"
  /\ responseInProgress
  /\ LET toolName == ToolAlias(LookupTool(functionCallMap, callId))
         args == ParseArguments(text)
         awaits == toolName \in HttpTools /\ toolName \in ENDPOINTS
         h == handleHandoff("router", CleanedQuestion(args), responseInProgress,
                            pendingResponseCreate)
         t == [tool |-> toolName, callId |-> callId]
     IN /\ awaits => BagCardinality(toolCalls) < MaxToolCalls
        /\ toolCalls' = IF awaits THEN Put(toolCalls, t) ELSE toolCalls
        /\ dispatchOrder' = IF awaits THEN Append(dispatchOrder, t)
                            ELSE dispatchOrder
        /\ toHttp' = IF awaits THEN <<ToolRequest(toolName, args)>> ELSE <<>>
        /\ IF toolName = "handoff_to_router"
           THEN /\ toOpenAI' = safeSendOpenAI(
                     <<FunctionCallOutput(callId, "{ok:true}")>> \o h.send)
                /\ currentAgent' = h.currentAgent
                /\ lastResponseIntent' = h.lastResponseIntent
                /\ pendingResponseCreate' = h.pendingResponseCreate
                /\ request' = IF HandoffRequests("router", CleanedQuestion(args))
                              THEN Recorded("open") ELSE request
           ELSE /\ toOpenAI' = <<>>
                /\ UNCHANGED <<currentAgent, lastResponseIntent,
                               pendingResponseCreate, request>>
  /\ toTwilio' = <<>>
  /\ lastArguments' = [call_id |-> callId, arguments |-> text]
  /\ lastEvent' = "response.function_call_arguments.done"
  /\ History
  /\ UNCHANGED service
  /\ UNCHANGED <<sockets, config, greetingStarted, callSid, streamSid,
                 openaiReady,
                 isAssistantSpeaking, isGreetingPlaying, responseInProgress,
                 assistantTranscript, assistantText, functionCallMap, playbacks>>

\* mutant of RouteTarget: every persona named by the intent is handed to
RouteTargetAnyAgent(intent) == IF intent \in Agents THEN intent ELSE NULL

\* the persona the determine_route branch hands to: output.intent when it is
\* items or pickup, none (NULL) otherwise
RouteTarget(intent) == IF intent \in {"items", "pickup"} THEN intent ELSE NULL

\* axios.post of determine_route returns data
RouteResponse(t, data) ==
  /\ t.tool = "determine_route"
  /\ LET question == IF Truthy(data.cleaned_question)
                     THEN data.cleaned_question ELSE NULL
         h == handleHandoff(RouteTarget(data.intent), question,
                            responseInProgress, pendingResponseCreate)
     IN /\ toOpenAI' = safeSendOpenAI(
             <<FunctionCallOutput(t.callId, RouteOutput(data))>> \o h.send)
        /\ currentAgent' = h.currentAgent
        /\ lastResponseIntent' = h.lastResponseIntent
        /\ pendingResponseCreate' = h.pendingResponseCreate
        /\ request' = IF HandoffRequests(RouteTarget(data.intent), question)
                      THEN Recorded("open") ELSE request
  /\ toolCalls' = Take(toolCalls, t)
  /\ dispatchOrder' = Settle(dispatchOrder, t)
  /\ toTwilio' = <<>>
  /\ toHttp' = <<>>
  /\ lastEvent' = "route.response"
  /\ History
  /\ UNCHANGED service
  /\ UNCHANGED <<sockets, config, greetingStarted, callSid, streamSid,
                 openaiReady,
                 isAssistantSpeaking, isGreetingPlaying, responseInProgress,
                 assistantTranscript, assistantText, functionCallMap, playbacks>>

\* the messages the search_items / search_pickup_locations branch sends after
\* its axios.post returned data
SearchSends(callId, data) == <<FunctionCallOutput(callId, SearchOutput(data))>>

SearchResponse(t, data) ==
  /\ t.tool \in {"search_items", "search_pickup_locations"}
  /\ toOpenAI' = safeSendOpenAI(SearchSends(t.callId, data))
  /\ toolCalls' = Take(toolCalls, t)
  /\ dispatchOrder' = Settle(dispatchOrder, t)
  /\ toTwilio' = <<>>
  /\ toHttp' = <<>>
  /\ lastEvent' = "search.response"
  /\ History
  /\ UNCHANGED service
  /\ UNCHANGED <<sockets, config, greetingStarted, session, playbacks>>

\* the messages the catch block of handleToolCall sends
CatchSends(callId) == <<>>

\* axios.post rejects: network error, non-2xx status or timeout
ToolFailure(t) ==
  /\ toOpenAI' = safeSendOpenAI(CatchSends(t.callId))
  /\ toolCalls' = Take(toolCalls, t)
  /\ dispatchOrder' = Settle(dispatchOrder, t)
  /\ toTwilio' = <<>>
  /\ toHttp' = <<>>
  /\ lastEvent' = "tool.failure"
  /\ History
  /\ UNCHANGED service
  /\ UNCHANGED <<sockets, config, greetingStarted, session, playbacks>>

\* ------------------------------------------------------------- response.done
\* mutant of TextToSpeak: the plain text is preferred to the transcript
TextToSpeakTextFirst(transcript, text) ==
  Trim(IF text # <<>> THEN text ELSE transcript)

\* (assistantTranscript || assistantText || '').trim()
TextToSpeak(transcript, text) ==
  Trim(IF transcript # <<>> THEN transcript ELSE text)

\* mutant of Speaks: the guard on lastResponseIntent is missing
SpeaksUnsolicited(textToSpeak, intent) == textToSpeak # <<>>

\* the two guards before speakWithElevenLabs in the response.done case
Speaks(textToSpeak, intent) == textToSpeak # <<>> /\ intent # NULL

ResponseDone ==
  /\ openaiWs = "OPEN"
  /\ responseInProgress
  /\ responseInProgress' = FALSE
  /\ LET r == IF pendingResponseCreate
              THEN requestResponseCreate(
                     IF lastResponseIntent # NULL THEN lastResponseIntent
                     ELSE "vad", FALSE, FALSE)
              ELSE [lastResponseIntent |-> lastResponseIntent,
                    pendingResponseCreate |-> FALSE, send |-> <<>>]
         textToSpeak == TextToSpeak(assistantTranscript, assistantText)
         speaks == Speaks(textToSpeak, r.lastResponseIntent)
         awaits == speaks /\ streamSid # NULL
     IN /\ awaits => BagCardinality(playbacks) < MaxPlaybacks
        /\ pendingResponseCreate' = r.pendingResponseCreate
        /\ toOpenAI' = safeSendOpenAI(r.send)
        /\ lastResponseIntent' = IF speaks /\ ~awaits THEN NULL
                                 ELSE r.lastResponseIntent
        /\ isAssistantSpeaking' = IF awaits THEN TRUE ELSE isAssistantSpeaking
        /\ toHttp' = IF awaits THEN <<[url |-> "tts", text |-> textToSpeak]>>
                     ELSE <<>>
        /\ playbacks' = IF awaits
                        THEN Put(playbacks, [kind |-> "tts", pc |-> "http",
                                             sent |-> 0, total |-> 0])
                        ELSE playbacks
        /\ request' = IF pendingResponseCreate THEN Recorded("open")
                      ELSE IF speaks THEN Recorded("none")
                      ELSE IF /\ textToSpeak = <<>>
                              /\ lastResponseIntent # NULL
                              /\ request = "open"
                      THEN "kept"
                      ELSE request
  /\ toTwilio' = <<>>
  /\ lastEvent' = "response.done"
  /\ History
  /\ UNCHANGED service
  /\ UNCHANGED <<sockets, config, greetingStarted, callSid, streamSid,
                 openaiReady,
                 isGreetingPlaying, currentAgent, assistantTranscript,
                 assistantText, functionCallMap, toolCalls>>

\* ------------------------------------------------------------------ the system
Next ==
  \/ \E m \in StartMsgs : TwilioStart(m)
  \/ TwilioMedia
  \/ TwilioMalformed
  \/ TwilioStop
  \/ TwilioClose
  \/ TwilioError
  \/ \E p \in BagToSet(playbacks) : PlaybackStep(p)
  \/ \E p \in BagToSet(playbacks) : PlaybackThrows(p)
  \/ \E p \in BagToSet(playbacks), n \in 0..MaxFrames : TtsResponse(p, n)
  \/ \E p \in BagToSet(playbacks) : TtsFailure(p)
  \/ OpenAIOpen
  \/ OpenAIMalformed
  \/ OpenAIClose
  \/ OpenAIError
  \/ EngineErrorEvent
  \/ SpeechStopped
  \/ ResponseCreated
  \/ ResponseDone
  \/ AudioDelta
  \/ \E d \in {<<c>> : c \in Chars} : TranscriptDelta(TRUE, d)
  \/ \E d \in {<<c>> : c \in Chars} : TextDelta(TRUE, d)
  \/ \E c \in CallIds, n \in ToolNames :
       OutputItemAdded("function_call", c, n)
  \/ \E c \in CallIds, a \in ArgumentTexts : FunctionCallArgumentsDone(c, a)
  \/ \E t \in BagToSet(toolCalls), d \in RouteData : RouteResponse(t, d)
  \/ \E t \in BagToSet(toolCalls), d \in SearchData : SearchResponse(t, d)
  \/ \E t \in BagToSet(toolCalls) : ToolFailure(t)

Init == \E f \in {0, GreetingFrames}, e \in EndpointSets : InitWith(f, e)

Spec == Init /\ [][Next]_vars

\* The call while both legs stay up, the greeting loaded and no tool endpoint
\* configured: the response gate, the playbacks and the caller audio.
InitCall == InitWith(GreetingFrames, {})

NextCall ==
  \/ \E m \in StartMsgs : TwilioStart(m)
  \/ TwilioMedia
  \/ \E p \in BagToSet(playbacks) : PlaybackStep(p)
  \/ \E p \in BagToSet(playbacks), n \in 0..MaxFrames : TtsResponse(p, n)
  \/ \E p \in BagToSet(playbacks) : TtsFailure(p)
  \/ OpenAIOpen
  \/ SpeechStopped
  \/ ResponseCreated
  \/ ResponseDone
  \/ \E d \in {<<c>> : c \in Chars} : TranscriptDelta(TRUE, d)
  \/ TextDelta(TRUE, <<"a">>)
  \/ OutputItemAdded("function_call", "c1", "handoff_to_router")
  \/ \E a \in {"{}", "{question:'why'}"} : FunctionCallArgumentsDone("c1", a)

SpecCall == InitCall /\ [][NextCall]_vars

\* The call while both legs stay up, with the tool endpoints of the router and
\* of the item search configured and no greeting audio loaded: tool dispatch
\* and agent handoff next to the response gate and the synthesis playbacks.
InitTools == InitWith(0, {"determine_route", "search_items"})

NextTools ==
  \/ \E m \in StartMsgs : TwilioStart(m)
  \/ TwilioMedia
  \/ \E p \in BagToSet(playbacks) : PlaybackStep(p)
  \/ \E p \in BagToSet(playbacks), n \in 0..MaxFrames : TtsResponse(p, n)
  \/ \E p \in BagToSet(playbacks) : TtsFailure(p)
  \/ OpenAIOpen
  \/ SpeechStopped
  \/ ResponseCreated
  \/ ResponseDone
  \/ TranscriptDelta(TRUE, <<"a">>)
  \/ \E c \in {"c1"}, n \in ToolNames :
       OutputItemAdded("function_call", c, n)
  \/ \E c \in {"c1"}, a \in ArgumentTexts : FunctionCallArgumentsDone(c, a)
  \/ \E t \in BagToSet(toolCalls), d \in RouteData : RouteResponse(t, d)
  \/ \E t \in BagToSet(toolCalls), d \in SearchData : SearchResponse(t, d)
  \/ \E t \in BagToSet(toolCalls) : ToolFailure(t)

SpecTools == InitTools /\ [][NextTools]_vars

\* The engine leg alone, before the telephony stream starts (so no completion
\* is synthesized), with the router and item-search endpoints configured:
\* the response gate, tool dispatch and the handoffs between personas.
NextHandoff ==
  \/ OpenAIOpen
  \/ SpeechStopped
  \/ ResponseCreated
  \/ ResponseDone
  \/ TranscriptDelta(TRUE, <<"a">>)
  \/ \E c \in {"c1"}, n \in ToolNames :
       OutputItemAdded("function_call", c, n)
  \/ \E c \in {"c1"}, a \in ArgumentTexts : FunctionCallArgumentsDone(c, a)
  \/ \E t \in BagToSet(toolCalls), d \in RouteData : RouteResponse(t, d)
  \/ \E t \in BagToSet(toolCalls), d \in SearchData : SearchResponse(t, d)
  \/ \E t \in BagToSet(toolCalls) : ToolFailure(t)

SpecHandoff == InitTools /\ [][NextHandoff]_vars

\* The call with its teardown: either leg may close or fail at any moment,
\* the caller may hang up (stop), and the engine may report errors.  A socket
\* that is CLOSING reaches CLOSED: the ws library completes or times out the
\* closing handshake and then emits 'close'.
NextTeardown ==
  \/ TwilioStart([callSid |-> "CA1", streamSid |-> "MZ1"])
  \/ TwilioMedia
  \/ TwilioMalformed
  \/ TwilioStop
  \/ TwilioClose
  \/ TwilioError
  \/ \E p \in BagToSet(playbacks) : PlaybackStep(p)
  \/ \E p \in BagToSet(playbacks), n \in 0..MaxFrames : TtsResponse(p, n)
  \/ \E p \in BagToSet(playbacks) : TtsFailure(p)
  \/ OpenAIOpen
  \/ OpenAIMalformed
  \/ OpenAIClose
  \/ OpenAIError
  \/ EngineErrorEvent
  \/ SpeechStopped
  \/ ResponseCreated
  \/ ResponseDone
  \/ TranscriptDelta(TRUE, <<"a">>)

SpecTeardown ==
  /\ InitWith(0, {})
  /\ [][NextTeardown]_vars
  /\ WF_vars(twilioWs = "CLOSING" /\ TwilioClose)
  /\ WF_vars(openaiWs = "CLOSING" /\ OpenAIClose)

\* ------------------------------------------------------------ the HTTP server
Methods == {"GET", "POST"}
Urls == {"/refresh-prompts", "/refresh-prompts?x=1", "/"}
\* PROMPT_REFRESH_SECRET: not set, set to the empty string, set
Secrets == {NULL, "", "s3cret"}
\* the Authorization header (NULL: absent)
AuthHeaders == {NULL, "", "s3cret", "Bearer ", "Bearer undefined",
                "Bearer wrong", "Bearer s3cret"}

\* `Bearer ${PROMPT_REFRESH_SECRET}`
BearerOf(secret) == "Bearer " \o (IF secret = NULL THEN "undefined" ELSE secret)

\* mutant of Authorized: the test that a secret is configured is missing
AuthorizedWithoutSecret(secret, header) ==
  (IF header = NULL THEN "" ELSE header) = BearerOf(secret)

\* the negation of the 401 guard
Authorized(secret, header) ==
  /\ Truthy(secret)
  /\ (IF header = NULL THEN "" ELSE header) = BearerOf(secret)

\* the request handler up to its first await, or to the end
HttpRequest(method, url, header) ==
  /\ httpRequest' = [method |-> method, url |-> url, authorization |-> header]
  /\ IF method = "POST" /\ url = "/refresh-prompts"
     THEN IF Authorized(PROMPT_REFRESH_SECRET, header)
          THEN /\ reloads < MaxReloads
               /\ reloads' = reloads + 1
               /\ httpResponse' = 0
          ELSE /\ httpResponse' = 401
               /\ UNCHANGED reloads
     ELSE /\ httpResponse' = 404
          /\ UNCHANGED reloads
  /\ UNCHANGED <<call, config, PROMPT_REFRESH_SECRET, answer, loaded>>

\* row.system_prompt of the row of a persona: null, or a text
RowPrompt(a) == {NULL, "row prompt of " \o a}
\* what the reload finds for a persona: no row, or the system_prompt of its row
RowValues == {NoRow} \cup UNION {RowPrompt(a) : a \in Agents}

\* what the store query of reloadPromptsFromDB can give: an error (reported or
\* thrown) and no rows, or the returned rows: for each persona no row, or the
\* system_prompt of its row
ReloadOutcomes ==
  {[error |-> TRUE, data |-> [a \in Agents |-> NoRow]]} \cup
  {[error |-> FALSE, data |-> d] :
     d \in {f \in [Agents -> RowValues] :
              \A a \in Agents : f[a] \in {NoRow} \cup RowPrompt(a)}}

\* the three assignments of '' followed by the loop over the rows
LoadedFrom(data) ==
  [a \in Agents |-> IF data[a] = NoRow THEN ""
                    ELSE IF Truthy(data[a]) THEN data[a] ELSE ""]

\* mutant of reloadPromptsFromDB: the prompts are not cleared before the loop,
\* a persona without a row keeps its old prompt
reloadPromptsFromDBKeepsMissing(outcome) ==
  IF outcome.error THEN PROMPTS
  ELSE [a \in Agents |-> IF outcome.data[a] = NoRow THEN PROMPTS[a]
                         ELSE LoadedFrom(outcome.data)[a]]

\* mutant of reloadPromptsFromDB: the prompts are cleared before the error test
reloadPromptsFromDBClearsFirst(outcome) ==
  IF outcome.error THEN [a \in Agents |-> ""] ELSE LoadedFrom(outcome.data)

\* reloadPromptsFromDB after its await
reloadPromptsFromDB(outcome) ==
  IF outcome.error THEN PROMPTS ELSE LoadedFrom(outcome.data)

\* the store answers: the reload finishes and the handler writes 200
ReloadReturns(outcome) ==
  /\ reloads > 0
  /\ reloads' = reloads - 1
  /\ PROMPTS' = reloadPromptsFromDB(outcome)
  /\ loaded' = outcome
  /\ httpResponse' = 200
  /\ UNCHANGED <<call, GREETING_FRAMES_B64, ENDPOINTS, PROMPT_REFRESH_SECRET,
                 httpRequest, answer>>

InitHttp ==
  /\ ConnectionState(0, {})
  /\ request = "untracked"
  /\ \E secret \in Secrets : ServiceInit(secret)
  /\ answer = NoAnswer

NextHttp ==
  \/ \E m \in Methods, u \in Urls, h \in AuthHeaders : HttpRequest(m, u, h)
  \/ \E o \in ReloadOutcomes : ReloadReturns(o)

SpecHttp == InitHttp /\ [][NextHttp]_vars

\* A call on a server whose prompts are reloaded meanwhile: the engine leg
\* opens and the router hands off while authorized refresh requests start
\* reloads and the store answers them.
InitReload ==
  /\ ConnectionState(0, {"determine_route"})
  /\ request = "untracked"
  /\ ServiceInit("s3cret")
  /\ answer = NoAnswer

NextReload ==
  \/ HttpRequest("POST", "/refresh-prompts", "Bearer s3cret")
  \/ \E o \in ReloadOutcomes : ReloadReturns(o)
  \/ OpenAIOpen
  \/ ResponseCreated
  \/ \E n \in {"determine_route", "handoff_to_router"} :
       OutputItemAdded("function_call", "c1", n)
  \/ FunctionCallArgumentsDone("c1", "{}")
  \/ \E t \in BagToSet(toolCalls),
        d \in {[intent |-> i, cleaned_question |-> NULL] :
                 i \in {"items", "pickup"}} : RouteResponse(t, d)

SpecReload == InitReload /\ [][NextReload]_vars

\* ------------------------------------------------------------- src/answers.js
\* A text is a sequence of pieces; a piece is a placeholder, a two-character
\* replacement pattern or plain text, and no placeholder spans two pieces, so
\* replaceAll works piece by piece.
ParamNames == {"a", "b"}
Placeholder(k) == "{{" \o k \o "}}"
TemplatePieces == {"Hi ", "{{a}}", "{{b}}"}
ValuePieces == {"Rivky", "{{b}}", "$$", "$&"}

SeqsUpTo(S, n) == UNION {[1..m -> S] : m \in 0..n}

\* a parameter value: null, or a string
ParamValues ==
  {[null |-> TRUE, string |-> <<>>]}
    \cup {[null |-> FALSE, string |-> v] :
            v \in SeqsUpTo(ValuePieces, MaxValueLen) \ {<<>>}}

\* Object.entries(params): the entries in insertion order, keys distinct
ParamEntries ==
  {e \in SeqsUpTo(ParamNames \X ParamValues, Cardinality(ParamNames)) :
     \A i, j \in 1..Len(e) : i # j => e[i][1] # e[j][1]}

\* the row .single() returns: found = FALSE stands for a missing or inactive
\* key and for a query error
AnswerCalls ==
  {[pc |-> "called", found |-> f, spoken_template |-> t, params |-> e,
    text |-> <<>>] :
     f \in BOOLEAN, t \in SeqsUpTo(TemplatePieces, MaxTemplateLen) \ {<<>>},
     e \in ParamEntries}

AnswerFallback == <<"I don't have an answer configured for that yet.">>

\* v == null ? '' : String(v)
SafeVal(v) == IF v.null THEN <<>> ELSE v.string

\* the replacement patterns String.prototype.replaceAll expands in a
\* replacement string: $$ is a dollar sign, $& the matched substring
RECURSIVE GetSubstitution(_, _)
GetSubstitution(replacement, matched) ==
  IF replacement = <<>> THEN <<>>
  ELSE (CASE Head(replacement) = "$$" -> <<"$">>
          [] Head(replacement) = "$&" -> <<matched>>
          [] OTHER -> <<Head(replacement)>>)
       \o GetSubstitution(Tail(replacement), matched)

\* text.replaceAll(pattern, replacement)
RECURSIVE ReplaceAll(_, _, _)
ReplaceAll(text, pattern, replacement) ==
  IF text = <<>> THEN <<>>
  ELSE (IF Head(text) = pattern THEN GetSubstitution(replacement, pattern)
        ELSE <<Head(text)>>)
       \o ReplaceAll(Tail(text), pattern, replacement)

\* the for loop over Object.entries(params)
RECURSIVE Interpolate(_, _)
Interpolate(text, entries) ==
  IF entries = <<>> THEN text
  ELSE Interpolate(ReplaceAll(text, Placeholder(Head(entries)[1]),
                              SafeVal(Head(entries)[2])),
                   Tail(entries))

speakAnswer(found, spoken_template, params) ==
  IF ~found THEN AnswerFallback ELSE Interpolate(spoken_template, params)

\* the call returns
SpeakAnswerReturns ==
  /\ answer.pc = "called"
  /\ answer' = [answer EXCEPT
                  !.pc = "returned",
                  !.text = speakAnswer(answer.found, answer.spoken_template,
                                       answer.params)]
  /\ UNCHANGED <<call, config, PROMPT_REFRESH_SECRET, httpRequest,
                 httpResponse, reloads, loaded>>

InitAnswers ==
  /\ ConnectionState(0, {})
  /\ request = "untracked"
  /\ ServiceInit(NULL)
  /\ answer \in AnswerCalls

NextAnswers == SpeakAnswerReturns

SpecAnswers == InitAnswers /\ [][NextAnswers]_vars

\* The call from the connection to the first turns, with the greeting loaded.
\* The start event carries the call and stream ids, as the telephony provider
\* sends it, so streamSid is null exactly as long as no start event has been
\* handled; the events of the two legs arrive in any order.
NextStart ==
  \/ TwilioStart([callSid |-> "CA1", streamSid |-> "MZ1"])
  \/ TwilioMedia
  \/ \E p \in BagToSet(playbacks) : PlaybackStep(p)
  \/ \E p \in BagToSet(playbacks), n \in 0..MaxFrames : TtsResponse(p, n)
  \/ \E p \in BagToSet(playbacks) : TtsFailure(p)
  \/ OpenAIOpen
  \/ SpeechStopped
  \/ ResponseCreated
  \/ ResponseDone
  \/ TranscriptDelta(TRUE, <<"a">>)

SpecStart == InitCall /\ [][NextStart]_vars

\* The turns of a call without greeting audio and without tools: the engine
\* streams a response as transcript deltas, as plain-text deltas or as both,
\* with string and non-string payloads, and each completion may be spoken.
NextTurns ==
  \/ TwilioStart([callSid |-> "CA1", streamSid |-> "MZ1"])
  \/ \E p \in BagToSet(playbacks) : PlaybackStep(p)
  \/ \E p \in BagToSet(playbacks), n \in 0..MaxFrames : TtsResponse(p, n)
  \/ \E p \in BagToSet(playbacks) : TtsFailure(p)
  \/ OpenAIOpen
  \/ SpeechStopped
  \/ ResponseCreated
  \/ ResponseDone
  \/ \E d \in {<<c>> : c \in Chars} : TranscriptDelta(TRUE, d)
  \/ TranscriptDelta(FALSE, <<>>)
  \/ TextDelta(TRUE, <<"b">>)
  \/ TextDelta(FALSE, <<>>)
  \/ AudioDelta

SpecTurns == InitWith(0, {}) /\ [][NextTurns]_vars

\* Tool dispatch with two call ids, the router endpoint configured and no
\* audio: the engine registers determine_route and handoff_to_router calls
\* under either id, finalizes arguments for either id, registered or not, and
\* the router service answers or fails each awaited call at its own time.
NextDispatch ==
  \/ TwilioStart([callSid |-> "CA1", streamSid |-> "MZ1"])
  \/ OpenAIOpen
  \/ SpeechStopped
  \/ ResponseCreated
  \/ ResponseDone
  \/ \E c \in CallIds, n \in {"determine_route", "handoff_to_router"} :
       OutputItemAdded("function_call", c, n)
  \/ \E c \in CallIds, a \in ArgumentTexts : FunctionCallArgumentsDone(c, a)
  \/ \E t \in BagToSet(toolCalls), d \in RouteData : RouteResponse(t, d)
  \/ \E t \in BagToSet(toolCalls) : ToolFailure(t)

SpecDispatch == InitTools /\ [][NextDispatch]_vars

\* The turns of a call whose router hands the question back to itself: the
\* response requests (voice activity, handoff, re-issue) are recorded next to
\* the completions and the synthesis playbacks they license.
InitReasons ==
  /\ ConnectionState(0, {})
  /\ request = "none"
  /\ ServiceInit(NULL)
  /\ answer = NoAnswer

NextReasons ==
  \/ TwilioStart([callSid |-> "CA1", streamSid |-> "MZ1"])
  \/ \E p \in BagToSet(playbacks) : PlaybackStep(p)
  \/ \E p \in BagToSet(playbacks), n \in 0..MaxFrames : TtsResponse(p, n)
  \/ \E p \in BagToSet(playbacks) : TtsFailure(p)
  \/ OpenAIOpen
  \/ SpeechStopped
  \/ ResponseCreated
  \/ ResponseDone
  \/ TranscriptDelta(TRUE, <<"a">>)
  \/ OutputItemAdded("function_call", "c1", "handoff_to_router")
  \/ \E a \in {"{}", "{question:'why'}"} : FunctionCallArgumentsDone("c1", a)

SpecReasons == InitReasons /\ [][NextReasons]_vars

\* The playbacks of a call with the greeting loaded, each running to its end:
\* a sleep(20) timer fires, the synthesis request answers or fails within its
\* 20 s timeout, a frame send may raise an error.
PlaybackRecords ==
  [kind : {"greeting", "tts"}, pc : {"http", "frames"},
   sent : 0..(GreetingFrames + MaxFrames),
   total : 0..(GreetingFrames + MaxFrames)]

\* the next thing that happens to the suspended playback p
PlaybackProgress(p) ==
  \/ PlaybackStep(p)
  \/ PlaybackThrows(p)
  \/ TtsFailure(p)
  \/ \E n \in 0..MaxFrames : TtsResponse(p, n)

NextPlayback ==
  \/ TwilioStart([callSid |-> "CA1", streamSid |-> "MZ1"])
  \/ \E p \in BagToSet(playbacks) : PlaybackStep(p)
  \/ \E p \in BagToSet(playbacks) : PlaybackThrows(p)
  \/ \E p \in BagToSet(playbacks), n \in 0..MaxFrames : TtsResponse(p, n)
  \/ \E p \in BagToSet(playbacks) : TtsFailure(p)
  \/ OpenAIOpen
  \/ SpeechStopped
  \/ ResponseCreated
  \/ ResponseDone
  \/ TranscriptDelta(TRUE, <<"a">>)

SpecPlayback ==
  /\ InitCall
  /\ [][NextPlayback]_vars
  /\ \A p \in PlaybackRecords :
       WF_vars(BagIn(p, playbacks) /\ PlaybackProgress(p))

\* ===================================================================== claims
IsFunctionOutput(m, callId) ==
  /\ m.type = "conversation.item.create"
  /\ m.item = "function_call_output"
  /\ m.call_id = callId

\* playbacks between their first frame and their finally block
Emitting == {p \in BagToSet(playbacks) : p.pc = "frames"}
EmittingCount == BagCardinality([p \in Emitting |-> CopiesIn(p, playbacks)])

\* C1: at most one response.create is outstanding at the engine: a request
\* that is sent marks the response as in flight, so a step that follows a step
\* which sent response.create (and so runs before any response-completed
\* event can have answered it) sends no second response.create.
C1_AtMostOneOutstanding ==
  [][CountCreate(toOpenAI) > 0 => CountCreate(toOpenAI') = 0]_vars

\* C2: requests made while a response is in flight send nothing and leave one
\* pending request that keeps the reason of the last call; the completion of
\* the response sends exactly one response.create for it and clears it, and a
\* completion with nothing pending sends none.
C2_PendingReissuedOnce ==
  [][/\ pendingResponseCreate' => lastResponseIntent' # NULL
     /\ responseInProgress /\ responseInProgress' => CountCreate(toOpenAI') = 0
     /\ lastEvent' = "response.done" /\ pendingResponseCreate
          => CountCreate(toOpenAI') = 1 /\ ~pendingResponseCreate'
     /\ lastEvent' = "response.done" /\ ~pendingResponseCreate
          => CountCreate(toOpenAI') = 0]_vars

\* C3: a telephony media frame handled while isAssistantSpeaking is true is
\* discarded: nothing is sent to the engine and nothing of the session changes
\* (the frame is kept nowhere).
C3_MediaDroppedWhileSpeaking ==
  [][lastEvent' = "twilio.media" /\ isAssistantSpeaking
       => toOpenAI' = <<>> /\ UNCHANGED <<session, playbacks, toolCalls>>]_vars

C3_Witness ==
  /\ lastEvent = "twilio.media"
  /\ isAssistantSpeaking /\ ~isGreetingPlaying /\ openaiReady
  /\ toOpenAI = <<>>

\* C4: isAssistantSpeaking is true in every state in which a playback of the
\* call is emitting frames.
C4_SpeakingWhileEmitting == Emitting # {} => isAssistantSpeaking

\* C5: at most one playback of the call is emitting frames at any time.
C5_OnePlaybackAtATime == EmittingCount <= 1

\* C6: the greeting is started at most once per call session, however often
\* the telephony start event arrives.
C6_GreetingAtMostOnce ==
  [][lastEvent' = "twilio.start" /\ toTwilio' # <<>> => ~greetingStarted]_vars

\* C7: a response that completes while the session has recorded no response
\* request (no reason, nothing pending) is not synthesized: no synthesis
\* request is made, no playback starts and no frame goes to the caller.
C7_UnsolicitedNotSpoken ==
  [][lastEvent' = "response.done" /\ lastResponseIntent = NULL
       /\ ~pendingResponseCreate
       => /\ toHttp' = <<>>
          /\ toTwilio' = <<>>
          /\ UNCHANGED <<playbacks, isAssistantSpeaking>>]_vars

C7_Witness ==
  /\ lastEvent = "response.done"
  /\ streamSid # NULL
  /\ lastResponseIntent = NULL
  /\ assistantTranscript = <<"a">>
  /\ toHttp = <<>>

\* C8: a successful item or pickup search submits the function result tagged
\* with the call id and then requests exactly one response when no response is
\* open, and none when one is open.
C8_SearchResultThenFollowup ==
  lastEvent = "search.response" /\ openaiWs = "OPEN"
    => /\ toOpenAI # <<>>
       /\ \E c \in CallIds : IsFunctionOutput(toOpenAI[1], c)
       /\ CountCreate(toOpenAI) = IF responseInProgress THEN 0 ELSE 1

\* C9: a tool dispatch whose HTTP call fails still submits a function result
\* (an error payload) tagged with the call id.
C9_FailureSubmitsErrorPayload ==
  lastEvent = "tool.failure" /\ openaiWs = "OPEN"
    => \E i \in 1..Len(toOpenAI), c \in CallIds :
         IsFunctionOutput(toOpenAI[i], c)

\* C10: when the route classification returns intent items or pickup with a
\* cleaned question, then after the dispatch currentAgent is that persona, the
\* persona's session configuration (its stored prompt or its fallback, and its
\* toolset) has been sent and the question has been injected as a user turn.
C10_RouteHandoff ==
  lastEvent = "route.response" /\ toOpenAI # <<>>
    => LET intent == toOpenAI[1].output[2]
           question == toOpenAI[1].output[4]
       IN intent \in {"items", "pickup"} /\ question \notin {NULL, ""}
            => /\ currentAgent = intent
               /\ Len(toOpenAI) >= 3
               /\ toOpenAI[2].type = "session.update"
               /\ toOpenAI[2].instructions =
                    (IF PROMPTS[intent] # "" THEN PROMPTS[intent]
                     ELSE IF intent = "items"
                     THEN "You are the Chasdei Lev items agent."
                     ELSE "You are the Chasdei Lev pickup agent.")
               /\ toOpenAI[2].tools =
                    (IF intent = "items"
                     THEN <<"search_items", "handoff_to_router">>
                     ELSE <<"search_pickup_locations", "handoff_to_router">>)
               /\ toOpenAI[3].type = "conversation.item.create"
               /\ toOpenAI[3].item = "message"
               /\ toOpenAI[3].role = "user"
               /\ toOpenAI[3].text = question

C10_Witness ==
  /\ lastEvent = "route.response"
  /\ currentAgent = "pickup"
  /\ Len(toOpenAI) >= 3
  /\ toOpenAI[1].output[2] = "pickup"
  /\ toOpenAI[3].text = "cq"

\* what the specification prescribes for a persona: its stored prompt, or the
\* hardcoded fallback when that is empty, and its toolset
PersonaInstructions(a) ==
  IF PROMPTS[a] # "" THEN PROMPTS[a]
  ELSE CASE a = "router" -> "You are the Chasdei Lev router agent."
         [] a = "items" -> "You are the Chasdei Lev items agent."
         [] a = "pickup" -> "You are the Chasdei Lev pickup agent."

PersonaTools(a) ==
  CASE a = "router" -> <<"determine_route">>
    [] a = "items" -> <<"search_items", "handoff_to_router">>
    [] a = "pickup" -> <<"search_pickup_locations", "handoff_to_router">>

\* C11: when a handoff to persona X is followed immediately by a handoff to
\* persona Y, currentAgent is Y and the last session configuration the engine
\* got carries exactly Y's instructions and exactly Y's toolset.
C11_SecondHandoffReplaces ==
  handoffBefore # NULL /\ lastEvent \in HandoffEvents
    /\ SessionUpdates(toOpenAI) # <<>>
    => LET Y == IF lastEvent = "route.response"
                THEN toOpenAI[1].output[2] ELSE "router"
       IN /\ currentAgent = Y
          /\ engineSession.instructions = PersonaInstructions(Y)
          /\ engineSession.tools = PersonaTools(Y)

C11_Witness ==
  /\ handoffBefore = "items"
  /\ lastEvent = "response.function_call_arguments.done"
  /\ SessionUpdates(toOpenAI) # <<>>
  /\ currentAgent = "router"
  /\ engineSession.tools = <<"determine_route">>

\* C12: currentAgent changes only in a step of the handoff protocol, and in
\* every state with the engine leg open the last session configuration sent
\* is the one of currentAgent: that persona's toolset, and its stored prompt
\* or its fallback.
C12_SessionMatchesAgent ==
  /\ [](openaiWs = "OPEN"
          => /\ engineSession.type = "session.update"
             /\ engineSession.instructions = PersonaInstructions(currentAgent)
             /\ engineSession.tools = PersonaTools(currentAgent))
  /\ [][currentAgent' # currentAgent => lastEvent' \in HandoffEvents]_vars

C12_Witness ==
  /\ openaiWs = "OPEN"
  /\ currentAgent = "items"
  /\ PROMPTS["items"] = ""
  /\ engineSession.instructions = "You are the Chasdei Lev items agent."
  /\ engineSession.tools = <<"search_items", "handoff_to_router">>

\* C13: when the synthesis request of a completed response fails or times
\* out, that step sends no frame to the caller, isAssistantSpeaking is false
\* after it and both sockets are as they were; and, unless the greeting is
\* still playing, a caller frame that arrives next is forwarded to the engine
\* and a speech boundary that arrives next is answered with a response request
\* (sent, or queued behind a response in flight).
C13_SynthesisFailureRecovers ==
  [][/\ lastEvent' = "tts.failure"
          => /\ toTwilio' = <<>>
             /\ ~isAssistantSpeaking'
             /\ UNCHANGED sockets
             /\ BagCardinality(playbacks') = BagCardinality(playbacks) - 1
     /\ lastEvent = "tts.failure" /\ ~isGreetingPlaying
          /\ lastEvent' = "twilio.media"
          => \E i \in 1..Len(toOpenAI') :
               toOpenAI'[i].type = "input_audio_buffer.append"
     /\ lastEvent = "tts.failure" /\ ~isGreetingPlaying
          /\ lastEvent' = "speech_stopped"
          => /\ lastResponseIntent' = "vad"
             /\ IF responseInProgress THEN pendingResponseCreate'
                ELSE CountCreate(toOpenAI') = 1]_vars

C13_Witness ==
  /\ lastEvent = "tts.failure"
  /\ ~isAssistantSpeaking /\ ~isGreetingPlaying
  /\ playbacks = EmptyBag
  /\ toTwilio = <<>>
  /\ twilioWs = "OPEN" /\ openaiWs = "OPEN"

\* C14: a close or an error of either leg, and the telephony stop event,
\* close the other leg (it is not left connecting or open), an attempt to
\* close a leg that is already closing or closed leaves it as it is, and once
\* one leg has left the open state both legs are eventually closed.
C14_CloseCascade ==
  /\ [][/\ lastEvent' \in {"twilio.stop", "twilio.close", "twilio.error"}
             => /\ openaiWs' \in {"CLOSING", "CLOSED"}
                /\ openaiWs \in {"CLOSING", "CLOSED"} => openaiWs' = openaiWs
        /\ lastEvent' \in {"openai.close", "openai.error"}
             => /\ twilioWs' \in {"CLOSING", "CLOSED"}
                /\ twilioWs \in {"CLOSING", "CLOSED"} => twilioWs' = twilioWs]_vars
  /\ (twilioWs \in {"CLOSING", "CLOSED"} \/ openaiWs \in {"CLOSING", "CLOSED"})
       ~> (twilioWs = "CLOSED" /\ openaiWs = "CLOSED")

C14_Witness ==
  /\ twilioWs = "CLOSED" /\ openaiWs = "CLOSED"
  /\ lastEvent = "twilio.close"
  /\ streamSid # NULL

\* C15: handling an error event reported by the engine closes neither socket
\* and changes nothing of the session: agent, flags, pending request, recorded
\* reason, accumulators, tool registry, playbacks and tool calls.
C15_ErrorEventChangesNothing ==
  [][lastEvent' = "error"
       => /\ UNCHANGED <<sockets, session, playbacks, toolCalls>>
          /\ toOpenAI' = <<>> /\ toTwilio' = <<>> /\ toHttp' = <<>>]_vars

C15_Witness ==
  /\ lastEvent = "error"
  /\ twilioWs = "OPEN" /\ openaiWs = "OPEN"
  /\ responseInProgress
  /\ lastResponseIntent = "vad"

\* the value the specification substitutes for key k: the string value of
\* params[k] (the empty string for null, which the code chooses explicitly)
ParamString(entries, k) ==
  LET i == CHOOSE i \in 1..Len(entries) : entries[i][1] = k
  IN IF entries[i][2].null THEN <<>> ELSE entries[i][2].string

\* the stored template with every {{k}} of a key k of params replaced by the
\* string value of params[k], everything else untouched
RECURSIVE Substituted(_, _)
Substituted(template, entries) ==
  IF template = <<>> THEN <<>>
  ELSE LET keys == {k \in ParamNames :
                      /\ Head(template) = "{{" \o k \o "}}"
                      /\ \E i \in 1..Len(entries) : entries[i][1] = k}
       IN (IF keys = {} THEN <<Head(template)>>
           ELSE ParamString(entries, CHOOSE k \in keys : TRUE))
          \o Substituted(Tail(template), entries)

\* C16: speakAnswer returns the stored template with every {{k}} replaced by
\* the string value of params[k] for each key k of params and with the
\* placeholders of absent keys untouched, and returns the fixed fallback
\* sentence when the key is missing or inactive.
C16_LiteralSubstitution ==
  answer.pc = "returned"
    => answer.text =
         IF answer.found
         THEN Substituted(answer.spoken_template, answer.params)
         ELSE <<"I don't have an answer configured for that yet.">>

\* C17: a request triggers a prompt reload only if it is a POST to
\* /refresh-prompts whose Authorization header equals Bearer plus the
\* configured secret; a POST to that path with a missing or wrong header, or
\* with no secret configured, gets 401 and no reload; any other path or
\* method gets 404 and no reload.
C17_ReloadNeedsBearerToken ==
  [][reloads' >= reloads
       => LET r == httpRequest'
          IN IF r.method = "POST" /\ r.url = "/refresh-prompts"
             THEN IF /\ PROMPT_REFRESH_SECRET \notin {NULL, ""}
                     /\ r.authorization = "Bearer " \o PROMPT_REFRESH_SECRET
                  THEN reloads' = reloads + 1 /\ httpResponse' \notin {401, 404}
                  ELSE /\ httpResponse' = 401
                       /\ UNCHANGED <<reloads, PROMPTS>>
             ELSE /\ httpResponse' = 404
                  /\ UNCHANGED <<reloads, PROMPTS>>]_vars

C17_Witness ==
  /\ PROMPT_REFRESH_SECRET = NULL
  /\ httpRequest.method = "POST"
  /\ httpRequest.url = "/refresh-prompts"
  /\ httpRequest.authorization = "Bearer undefined"
  /\ httpResponse = 401
  /\ reloads = 0

\* C18: a response.create is sent only when the engine is ready and the
\* telephony stream has started: none is sent by a step taken before the
\* start event was handled.
C18_NoRequestBeforeStart ==
  CountCreate(toOpenAI) > 0 => openaiReady /\ streamSid # NULL

\* C19: while the telephony stream has not started no audio flows: a step
\* taken before the start event forwards no caller frame to the engine and
\* sends no frame to the caller.
C19_NoAudioBeforeStart ==
  streamSid = NULL
    => /\ toTwilio = <<>>
       /\ \A i \in 1..Len(toOpenAI) :
            toOpenAI[i].type # "input_audio_buffer.append"

\* C20: the greeting is started only in a state in which the engine leg is
\* ready.
C20_GreetingNeedsEngineReady ==
  lastEvent = "twilio.start"
    /\ (\E i \in 1..Len(toTwilio) : toTwilio[i].kind = "greeting")
    => openaiReady

C22_TranscriptElseText ==
  [][lastEvent' = "response.done"
       => LET selected == IF assistantTranscript # <<>>
                          THEN assistantTranscript ELSE assistantText
          IN /\ toHttp' # <<>>
                  => toHttp' = <<[url |-> "tts", text |-> Trim(selected)]>>
             /\ (/\ Trim(selected) # <<>>
                 /\ streamSid # NULL
                 /\ lastResponseIntent # NULL \/ pendingResponseCreate)
                  => toHttp' # <<>> /\ isAssistantSpeaking'
             /\ (assistantTranscript = <<>> /\ assistantText = <<>>)
                  => /\ toHttp' = <<>>
                     /\ UNCHANGED <<isAssistantSpeaking, playbacks>>]_vars

C22_Witness ==
  /\ lastEvent = "response.done"
  /\ assistantTranscript = <<"a">>
  /\ assistantText = <<"b">>
  /\ toHttp = <<[url |-> "tts", text |-> <<"a">>]>>

\* C23: a speech_stopped event handled while the session is speaking (a flag
\* is set, or a greeting or synthesis playback is emitting frames) sends no
\* response.create, queues no request and records no reason.
C23_NoRequestWhileSpeaking ==
  [][(/\ lastEvent' = "speech_stopped"
      /\ isAssistantSpeaking \/ isGreetingPlaying \/ Emitting # {})
       => /\ toOpenAI' = <<>>
          /\ UNCHANGED <<pendingResponseCreate, lastResponseIntent>>]_vars

\* C24: tool calls are settled in the order their arguments-finalized events
\* arrived: the call whose HTTP result is handled (function result submitted,
\* handoff made) is the oldest one still awaited.
C24_DispatchInOrder ==
  [][lastEvent' \in {"route.response", "search.response", "tool.failure"}
       => dispatchOrder # <<>> /\ dispatchOrder' = Tail(dispatchOrder)]_vars

\* a playback loop passes a frame to twilioWs.send in this step: a playback
\* enters the frame loop, or advances in it, by one send call
FrameHanded ==
  \E p \in BagToSet(playbacks') :
    p.pc = "frames" /\ CopiesIn(p, playbacks') > CopiesIn(p, playbacks)

\* C25: every send is guarded by the liveness of its socket: a step taken
\* while the telephony socket is not open passes no frame to it (a playback
\* loop resumed after the close stops instead of sending its next frame),
\* and a step taken while the engine socket is not open sends nothing on it.
C25_SendsGuarded ==
  [][/\ twilioWs' # "OPEN" => toTwilio' = <<>> /\ ~FrameHanded
     /\ openaiWs' # "OPEN" => toOpenAI' = <<>>]_vars

\* the synthetic user turns among msgs
UserTurns(msgs) ==
  SelectSeq(msgs, LAMBDA m : m.type = "conversation.item.create"
                             /\ m.item = "message")

\* the step just taken (the primed state) invoked the handoff protocol: a
\* route result with intent items or pickup, or the arguments of a call
\* registered as handoff_to_router
HandoffInvoked ==
  \/ /\ lastEvent' = "route.response"
     /\ toOpenAI' # <<>>
     /\ toOpenAI'[1].output[2] \in {"items", "pickup"}
  \/ /\ lastEvent' = "response.function_call_arguments.done"
     /\ functionCallMap[lastArguments'.call_id] = "handoff_to_router"

\* the persona that step hands to, and the question it forwards (NULL: none)
HandoffTarget ==
  IF lastEvent' = "route.response" THEN toOpenAI'[1].output[2] ELSE "router"
HandoffQuestion ==
  IF lastEvent' = "route.response"
  THEN (IF toOpenAI'[1].output[4] = "" THEN NULL ELSE toOpenAI'[1].output[4])
  ELSE IF lastArguments'.arguments = "{question:'why'}" THEN "why" ELSE NULL

\* C26: a handoff sends one session.update; when it forwards a non-empty
\* question this is followed by the user turn with that question and then by
\* a response request with reason handoff through the gate (response.create
\* when no response is in progress, a pending request otherwise); without a
\* question nothing follows the session.update and no request is made.
C26_HandoffMessageOrder ==
  [][HandoffInvoked
       => /\ Len(SessionUpdates(toOpenAI')) = 1
          /\ LET i == CHOOSE k \in 1..Len(toOpenAI') :
                        toOpenAI'[k].type = "session.update"
                 rest == SubSeq(toOpenAI', i + 1, Len(toOpenAI'))
             IN IF HandoffQuestion = NULL
                THEN /\ rest = <<>>
                     /\ UNCHANGED <<lastResponseIntent, pendingResponseCreate>>
                ELSE /\ lastResponseIntent' = "handoff"
                     /\ rest # <<>>
                     /\ rest[1] = [type |-> "conversation.item.create",
                                   item |-> "message", role |-> "user",
                                   text |-> HandoffQuestion]
                     /\ IF responseInProgress
                        THEN Len(rest) = 1 /\ pendingResponseCreate'
                        ELSE /\ Len(rest) = 2
                             /\ rest[2] = [type |-> "response.create"]
                             /\ UNCHANGED pendingResponseCreate]_vars

C26_Witness ==
  /\ lastEvent = "route.response"
  /\ Len(toOpenAI) = 4
  /\ toOpenAI[2].type = "session.update"
  /\ toOpenAI[3].text = "cq"
  /\ toOpenAI[4].type = "response.create"

\* C27: a handoff leaves callSid and streamSid, and everything else of the
\* call that is not the persona or the response request, as they were; a
\* handoff to the persona that is already current leaves currentAgent as it
\* was and sends the session.update the engine was sent last once more.
C27_HandoffKeepsCallState ==
  [][HandoffInvoked
       => /\ UNCHANGED <<callSid, streamSid, openaiReady, isAssistantSpeaking,
                         isGreetingPlaying, responseInProgress,
                         assistantTranscript, assistantText, functionCallMap,
                         sockets, playbacks>>
          /\ HandoffTarget = currentAgent
               => /\ currentAgent' = currentAgent
                  /\ SessionUpdates(toOpenAI') = <<engineSession>>]_vars

\* two handoffs to the items persona, one after the other, on a started call
C27_Witness ==
  /\ lastEvent = "route.response"
  /\ callSid = "CA1" /\ streamSid = "MZ1"
  /\ handoffBefore = "items"
  /\ currentAgent = "items"
  /\ SessionUpdates(toOpenAI) # <<>>

\* C28: the arguments of a call registered as handoff_to_router make
\* currentAgent router and send the router's session.update, whichever
\* persona was current; the question argument is injected as the user turn
\* exactly when it is a non-empty string.
C28_HandoffToRouter ==
  [][(/\ lastEvent' = "response.function_call_arguments.done"
      /\ functionCallMap[lastArguments'.call_id] = "handoff_to_router")
       => /\ currentAgent' = "router"
          /\ Len(SessionUpdates(toOpenAI')) = 1
          /\ SessionUpdates(toOpenAI')[1].instructions =
               (IF PROMPTS["router"] # "" THEN PROMPTS["router"]
                ELSE "You are the Chasdei Lev router agent.")
          /\ SessionUpdates(toOpenAI')[1].tools = <<"determine_route">>
          /\ UserTurns(toOpenAI') =
               (IF lastArguments'.arguments = "{question:'why'}"
                THEN <<[type |-> "conversation.item.create", item |-> "message",
                        role |-> "user", text |-> "why"]>>
                ELSE <<>>)]_vars

\* handoff_to_router with a question, right after a handoff to items
C28_Witness ==
  /\ lastEvent = "response.function_call_arguments.done"
  /\ functionCallMap[lastArguments.call_id] = "handoff_to_router"
  /\ handoffBefore = "items"
  /\ currentAgent = "router"
  /\ UserTurns(toOpenAI) # <<>>

\* C29: a route result always submits the function result of its call; it
\* hands to the persona of its intent only for items and pickup, and then
\* makes at most the one response request of the handoff (none without a
\* question); for every other intent nothing else is sent, and currentAgent
\* and the response request state stay as they were.
C29_RouteHandsOffOnlyToSecondary ==
  [][lastEvent' = "route.response"
       => /\ toOpenAI' # <<>>
          /\ \E c \in CallIds :
               /\ IsFunctionOutput(toOpenAI'[1], c)
               /\ CopiesIn([tool |-> "determine_route", callId |-> c], toolCalls')
                    < CopiesIn([tool |-> "determine_route", callId |-> c],
                               toolCalls)
          /\ IF toOpenAI'[1].output[2] \in {"items", "pickup"}
             THEN /\ currentAgent' = toOpenAI'[1].output[2]
                  /\ Len(SessionUpdates(toOpenAI')) = 1
                  /\ CountCreate(toOpenAI') <= 1
                  /\ toOpenAI'[1].output[4] \in {NULL, ""}
                       => /\ CountCreate(toOpenAI') = 0
                          /\ UNCHANGED <<lastResponseIntent,
                                         pendingResponseCreate>>
             ELSE /\ Len(toOpenAI') = 1
                  /\ UNCHANGED <<currentAgent, lastResponseIntent,
                                 pendingResponseCreate>>]_vars

\* the router intent arrives while items is the current persona
C29_Witness ==
  /\ lastEvent = "route.response"
  /\ toOpenAI # <<>>
  /\ toOpenAI[1].output[2] = "router"
  /\ Len(toOpenAI) = 1
  /\ currentAgent = "items"

\* C30: the arguments of a call id that is not registered change nothing:
\* no HTTP request, no message to the engine, no change of the session or of
\* the awaited tool calls; and the arguments of a registered determine_route
\* call that arrive right after them are dispatched.
C30_UnknownCallIdAborts ==
  [][/\ (/\ lastEvent' = "response.function_call_arguments.done"
          /\ functionCallMap[lastArguments'.call_id] = NULL)
          => /\ toHttp' = <<>>
             /\ toOpenAI' = <<>>
             /\ UNCHANGED <<session, sockets, playbacks, toolCalls>>
     /\ (/\ lastEvent = "response.function_call_arguments.done"
          /\ functionCallMap[lastArguments.call_id] = NULL
          /\ lastEvent' = "response.function_call_arguments.done"
          /\ functionCallMap[lastArguments'.call_id] = "determine_route")
          => /\ Len(toHttp') = 1
             /\ toHttp'[1].url = "determine_route"
             /\ CopiesIn([tool |-> "determine_route",
                          callId |-> lastArguments'.call_id], toolCalls')
                  > CopiesIn([tool |-> "determine_route",
                              callId |-> lastArguments'.call_id], toolCalls)]_vars

\* arguments for the unregistered id c2 while the call c1 is awaited
C30_Witness ==
  /\ lastEvent = "response.function_call_arguments.done"
  /\ lastArguments.call_id = "c2"
  /\ functionCallMap["c2"] = NULL
  /\ functionCallMap["c1"] = "determine_route"
  /\ toolCalls # EmptyBag
  /\ toHttp = <<>>

\* C31: arguments that do not parse, for a registered call id, are dispatched
\* as the empty object: determine_route is requested with empty arguments and
\* awaited, handoff_to_router submits its result and hands to the router
\* without a question; no socket is closed and the response goes on.
C31_MalformedArgumentsDispatched ==
  [][(/\ lastEvent' = "response.function_call_arguments.done"
      /\ lastArguments'.arguments = "{bad")
       => /\ UNCHANGED <<sockets, responseInProgress, functionCallMap>>
          /\ functionCallMap[lastArguments'.call_id] = "determine_route"
               => /\ Len(toHttp') = 1
                  /\ toHttp'[1].url = "determine_route"
                  /\ toHttp'[1].args = [question |-> NULL,
                                        typeof |-> "undefined"]
                  /\ BagCardinality(toolCalls') = BagCardinality(toolCalls) + 1
          /\ functionCallMap[lastArguments'.call_id] = "handoff_to_router"
               => /\ toOpenAI' # <<>>
                  /\ IsFunctionOutput(toOpenAI'[1], lastArguments'.call_id)
                  /\ currentAgent' = "router"
                  /\ UserTurns(toOpenAI') = <<>>]_vars

C31_Witness ==
  /\ lastEvent = "response.function_call_arguments.done"
  /\ lastArguments = [call_id |-> "c1", arguments |-> "{bad"]
  /\ functionCallMap["c1"] = "determine_route"
  /\ Len(toHttp) = 1
  /\ toHttp[1].args.question = NULL
  /\ openaiWs = "OPEN"

\* C32: a frame that is no JSON text, on either leg, is ignored: nothing is
\* sent or requested, no socket changes its state, and the session, the
\* playbacks and the awaited tool calls stay as they were.
C32_MalformedFrameIgnored ==
  [][lastEvent' \in {"twilio.malformed", "openai.malformed"}
       => /\ toOpenAI' = <<>> /\ toTwilio' = <<>> /\ toHttp' = <<>>
          /\ UNCHANGED <<sockets, session, playbacks, toolCalls>>]_vars

\* a malformed engine frame in the middle of a synthesized turn
C32_Witness ==
  /\ lastEvent = "openai.malformed"
  /\ twilioWs = "OPEN" /\ openaiWs = "OPEN"
  /\ isAssistantSpeaking
  /\ playbacks # EmptyBag

\* C33: without greeting audio a telephony start event records the call and
\* stream ids of the event, sends no frame, starts no playback, leaves both
\* speaking flags and both sockets as they were (isGreetingPlaying is never
\* set), and a caller frame that follows it is forwarded to the engine when
\* the engine is ready and nothing is being spoken.
C33_NoGreetingCallProceeds ==
  [][GREETING_FRAMES_B64 = 0
       => /\ ~isGreetingPlaying'
          /\ lastEvent' = "twilio.start"
               => /\ callSid' = "CA1" /\ streamSid' = "MZ1"
                  /\ toTwilio' = <<>>
                  /\ UNCHANGED <<isAssistantSpeaking, isGreetingPlaying,
                                 playbacks, sockets>>
          /\ (/\ lastEvent = "twilio.start"
              /\ lastEvent' = "twilio.media"
              /\ openaiReady /\ openaiWs = "OPEN"
              /\ ~isAssistantSpeaking)
               => toOpenAI' = <<[type |-> "input_audio_buffer.append"]>>]_vars

C33_Witness ==
  /\ GREETING_FRAMES_B64 = 0
  /\ lastEvent = "twilio.media"
  /\ streamSid = "MZ1"
  /\ playbacks = EmptyBag
  /\ toOpenAI = <<[type |-> "input_audio_buffer.append"]>>

\* C34: a response.audio.delta event sends nothing to the caller or anywhere
\* else and changes nothing of the session; a frame goes to the caller only
\* in a step of a greeting or synthesis playback, and is a frame of it.
C34_EngineAudioIgnored ==
  [][/\ lastEvent' = "response.audio.delta"
          => /\ toTwilio' = <<>> /\ toOpenAI' = <<>> /\ toHttp' = <<>>
             /\ UNCHANGED <<sockets, session, playbacks, toolCalls>>
     /\ toTwilio' # <<>>
          => /\ lastEvent' \in {"twilio.start", "playback.timer",
                                "tts.response"}
             /\ \A i \in 1..Len(toTwilio') :
                  toTwilio'[i].kind \in {"greeting", "tts"}]_vars

\* the engine streams audio while the stream is up and a synthesis plays
C34_Witness ==
  /\ lastEvent = "response.audio.delta"
  /\ streamSid # NULL
  /\ twilioWs = "OPEN"
  /\ playbacks # EmptyBag
  /\ toTwilio = <<>>

\* this step ends a synthesis playback: its finally block has run and the
\* response.done handler that awaited it has resumed
SynthesisEnds ==
  /\ lastEvent' \in {"playback.timer", "playback.throw", "tts.response",
                     "tts.failure"}
  /\ \E p \in BagToSet(playbacks) :
       p.kind = "tts" /\ playbacks' = Take(playbacks, p)

\* a request is recorded that no spoken completion has answered yet
RequestOpen == request \in {"open", "kept"}

\* C36: a reason recorded by requestResponseCreate stays recorded until the
\* response it requested completes: the end of the synthesis playback of an
\* earlier completion does not erase the reason of a request that was recorded
\* since and that no spoken completion has answered yet.
C36_ReasonStaysRecorded ==
  [][SynthesisEnds /\ RequestOpen
       => lastResponseIntent' = lastResponseIntent]_vars

\* C37: each recorded response request licenses at most one spoken completion:
\* a response completion that invokes synthesis (and re-issues no queued
\* request in the same step) answers a request that no earlier completion
\* has been spoken for.
C37_OneSpokenCompletionPerRequest ==
  [][(/\ lastEvent' = "response.done"
      /\ ~pendingResponseCreate
      /\ toHttp' # <<>>)
       => RequestOpen]_vars

\* C38: a response completion whose selected text is empty does not consume
\* the recorded reason: the completion leaves the reason as it is, and the next
\* completion with non-empty text under that request is spoken.
C38_EmptyCompletionKeepsReason ==
  /\ [][(/\ lastEvent' = "response.done"
         /\ ~pendingResponseCreate
         /\ TextToSpeak(assistantTranscript, assistantText) = <<>>)
          => lastResponseIntent' = lastResponseIntent]_vars
  /\ [][(/\ lastEvent' = "response.done"
         /\ ~pendingResponseCreate
         /\ request = "kept"
         /\ streamSid # NULL
         /\ TextToSpeak(assistantTranscript, assistantText) # <<>>)
          => toHttp' # <<>>]_vars

\* C35: a reload replaces the prompt set as a whole: the set changes only in
\* the one step that ends a reload and then to the complete new set, and the
\* instructions a session sends at engine open or at a handoff while a reload
\* is running are those of its persona in the set as it stands, which is the
\* set before the reload or the set a finished reload has left.
C35_ReloadReplacesWholeSet ==
  /\ [][PROMPTS' # PROMPTS
          => /\ reloads' = reloads - 1
             /\ ~loaded'.error
             /\ PROMPTS' = LoadedFrom(loaded'.data)]_vars
  /\ [][(/\ reloads > 0
         /\ UNCHANGED service
         /\ SessionUpdates(toOpenAI') # <<>>)
          => /\ PROMPTS \in PromptSets \cup
                             {LoadedFrom(o.data) : o \in ReloadOutcomes}
             /\ engineSession'.instructions = Instructions(currentAgent')]_vars

C35_Witness ==
  /\ reloads > 0
  /\ ~loaded.error
  /\ PROMPTS = LoadedFrom(loaded.data)
  /\ PROMPTS["router"] = "row prompt of router"
  /\ PROMPTS["pickup"] = ""
  /\ lastEvent = "route.response"
  /\ currentAgent = "pickup"
  /\ SessionUpdates(toOpenAI) # <<>>

\* C40: a reload whose store query reports an error or throws leaves the
\* prompt set as it was; a successful reload sets each persona's prompt to the
\* text of its returned row and to the empty text for a persona without a row
\* (or whose row has no text).
C40_ReloadOutcome ==
  [][reloads' < reloads
       => IF loaded'.error THEN PROMPTS' = PROMPTS
          ELSE \A a \in Agents :
                 PROMPTS'[a] = IF loaded'.data[a] \in {NoRow, NULL} THEN ""
                               ELSE loaded'.data[a]]_vars

C40_Witness ==
  /\ loaded.error
  /\ httpResponse = 200
  /\ PROMPTS = [a \in Agents |-> IF a = "router" THEN "row prompt of router"
                                  ELSE ""]

\* C39: every greeting or synthesis playback that raises isAssistantSpeaking
\* lowers it again, whether it runs to its last frame, its synthesis request
\* fails or a frame send raises an error: whenever the flag (or the greeting
\* flag) is set it is later cleared.
C39_SpeakingEventuallyCleared ==
  /\ isAssistantSpeaking ~> ~isAssistantSpeaking
  /\ isGreetingPlaying ~> ~isGreetingPlaying

C39_Witness ==
  /\ lastEvent = "playback.throw"
  /\ ~isAssistantSpeaking
  /\ playbacks = EmptyBag
  /\ greetingStarted
====
